---------------------------- MODULE Spec2Model ----------------------------
(***************************************************************************)
(* Model of the Enron e-mail network extraction:                           *)
(*   - the edge extraction loop of Enron-read.ipynb (Python, regular       *)
(*     expressions over the raw message text, the links table),            *)
(*   - compareTimeSeries (both overloads) and pearsonCorrelation of        *)
(*     ch.epfl.lts2.Utils (Scala).                                         *)
(* Python strings are TLA+ strings; a regular expression is the operator   *)
(* that computes what re.search returns for it.                            *)
(***************************************************************************)
EXTENDS Integers, Sequences, FiniteSets, TLC

VARIABLES
    data,         \* data['message']: the sequence of raw message texts
    i,            \* the loop index of `for i in range(len(data))` (0-based)
    pc,           \* position in the cell: "loop", "for", "else", "done", "raised"
    links,        \* the DataFrame: row label -> [Date, From, To]
    links_index,  \* the row counter
    date,         \* the local `date` after line 103
    m_from,       \* the local `m_from`
    addresses,    \* what is left to iterate of `addresses` (or <<m_to>>)
    mark,         \* history: links_index when the current iteration began
    batch,        \* two batches <<X, Y>> of messages handed to the cell
    built,        \* what the cell leaves for X ++ Y, for X and for Y
    call,         \* which function of Utils is being called
    m1, m2,       \* its arguments: Map[Int, Double]
    start, stop, upperBoundActivationsNumber, lambda, isFiltered,
    fpc,          \* position in the function: "begin", "loop", "returned"
    commonKeys,   \* val commonKeys (a Set, or the sorted Seq of pearsonCorrelation)
    pending,      \* the keys `for (key <- commonKeys)` has still to visit
    m1Freq, m2Freq,
    weight,       \* var weight
    t,            \* the loop variable of `for (t <- 0 until commonKeys.size by 24)`
    sum,          \* var sum of pearsonCorrelation
    blocks,       \* history: the slices commonKeys_ taken so far
    result        \* the value returned

edgeVars  == <<data, i, pc, links, links_index, date, m_from, addresses, mark>>
buildVars == <<batch, built>>
utilVars  == <<call, m1, m2, start, stop, upperBoundActivationsNumber, lambda, isFiltered,
               fpc, commonKeys, pending, m1Freq, m2Freq, weight, t, sum, blocks, result>>
vars      == <<edgeVars, buildVars, utilVars>>

-----------------------------------------------------------------------------
(* Python str operations *)

Min(S) == CHOOSE x \in S : \A y \in S : x <= y
Max(S) == CHOOSE x \in S : \A y \in S : x >= y

\* s[p] (1-based), "" outside the string
Char(s, p) == IF p >= 1 /\ p <= Len(s) THEN SubSeq(s, p, p) ELSE ""

\* s[p:] (1-based p)
From(s, p) == IF p > Len(s) THEN "" ELSE SubSeq(s, p, Len(s))

\* str.find: the first position >= p where sub occurs in s, 0 when none
Find(s, sub, p) ==
    LET P == {q \in p..(Len(s) - Len(sub) + 1) : SubSeq(s, q, q + Len(sub) - 1) = sub}
    IN  IF P = {} THEN 0 ELSE Min(P)

\* `sub in s`
Contains(s, sub) == Find(s, sub, 1) # 0

\* str.replace(old, new): every non-overlapping occurrence, left to right
RECURSIVE Replace(_, _, _)
Replace(s, old, new) ==
    LET p == Find(s, old, 1)
    IN  IF p = 0 THEN s
        ELSE SubSeq(s, 1, p - 1) \o new \o Replace(From(s, p + Len(old)), old, new)

\* str.split(sep): never an empty list; empty pieces are kept
RECURSIVE Split(_, _)
Split(s, sep) ==
    LET p == Find(s, sep, 1)
    IN  IF p = 0 THEN <<s>>
        ELSE <<SubSeq(s, 1, p - 1)>> \o Split(From(s, p + Len(sep)), sep)

-----------------------------------------------------------------------------
(* The three regular expressions *)

WordAlphabet == "abcdefghijklmnopqrstuvwxyzABCDEFGHIJKLMNOPQRSTUVWXYZ0123456789_"

\* \w
IsWord(c) == c \in {SubSeq(WordAlphabet, k, k) : k \in 1..Len(WordAlphabet)}

\* \s
IsSpace(c) == c \in {" ", "\t", "\n", "\r", "\f"}

\* the length of the longest run of \w characters of s that starts at p
RECURSIVE WordRun(_, _)
WordRun(s, p) == IF IsWord(Char(s, p)) THEN 1 + WordRun(s, p + 1) ELSE 0

\* (\w)+(\.)?(\w)*@(\w)+.com matched at p: the position of its last
\* character, 0 when it does not match there.  (\w)+ is greedy and gives
\* characters back, '.' is any character but a newline.
AddrEnd(s, p) ==
    LET r1 == WordRun(s, p)
        q  == p + r1
        at == IF Char(s, q) = "@" THEN q
              ELSE IF Char(s, q) = "." /\ Char(s, q + 1 + WordRun(s, q + 1)) = "@"
                   THEN q + 1 + WordRun(s, q + 1)
                   ELSE 0
        J  == {j \in 1..WordRun(s, at + 1) :
                 /\ Char(s, at + j + 1) \notin {"", "\n"}
                 /\ at + j + 4 <= Len(s)
                 /\ SubSeq(s, at + j + 2, at + j + 4) = "com"}
    IN  IF r1 = 0 \/ at = 0 \/ J = {} THEN 0 ELSE at + Max(J) + 4

NoMatch == [matched |-> FALSE, group |-> ""]

\* fromRegex.search(s): the leftmost match of From:\s<address>
fromRegex(s) ==
    LET P == {p \in 1..Len(s) :
                /\ p + 4 <= Len(s)
                /\ SubSeq(s, p, p + 4) = "From:"
                /\ IsSpace(Char(s, p + 5))
                /\ AddrEnd(s, p + 6) # 0}
    IN  IF P = {} THEN NoMatch
        ELSE [matched |-> TRUE, group |-> SubSeq(s, Min(P), AddrEnd(s, Min(P) + 6))]

\* toRegex.search(s): the leftmost match of To:\s<address>(.*?)\n ; the lazy
\* (.*?) stops at the first newline after the address
toRegex(s) ==
    LET P == {p \in 1..Len(s) :
                /\ p + 2 <= Len(s)
                /\ SubSeq(s, p, p + 2) = "To:"
                /\ IsSpace(Char(s, p + 3))
                /\ AddrEnd(s, p + 4) # 0
                /\ Find(s, "\n", AddrEnd(s, p + 4) + 1) # 0}
    IN  IF P = {} THEN NoMatch
        ELSE [matched |-> TRUE,
              group |-> SubSeq(s, Min(P), Find(s, "\n", AddrEnd(s, Min(P) + 4) + 1))]

\* dateRegex.search(s): the leftmost match of Date:\s(.*?)\n
dateRegex(s) ==
    LET P == {p \in 1..Len(s) :
                /\ p + 4 <= Len(s)
                /\ SubSeq(s, p, p + 4) = "Date:"
                /\ IsSpace(Char(s, p + 5))
                /\ Find(s, "\n", p + 6) # 0}
    IN  IF P = {} THEN NoMatch
        ELSE [matched |-> TRUE, group |-> SubSeq(s, Min(P), Find(s, "\n", Min(P) + 6))]

-----------------------------------------------------------------------------
(* The messages the loop is run on *)

MaxMsgs == 2

Body == "X-To: Bo\nSubject: hi\n\nbye"

\* "\n".join-style rendering of a header whose value is a ", "-separated list
RECURSIVE Join(_, _)
Join(L, sep) ==
    IF Len(L) = 0 THEN ""
    ELSE IF Len(L) = 1 THEN L[1]
    ELSE L[1] \o sep \o Join(Tail(L), sep)

DateTexts == {"14 May 2001 16:39"}
Senders == {"a@x.com", "b.c@y.com"}
RcptLists == {<<"d@z.com">>, <<"b.c@y.com", "a@x.com">>,
              <<"a@x.com", "d@z.com", "b.c@y.com">>}

DateLine(d) == "Date: " \o d \o "\n"
FromLine(f) == "From: " \o f \o "\n"
ToLine(L)   == "To: " \o Join(L, ", ") \o "\n"

Msg(d, f, r) == d \o f \o r \o Body

GoodDate == DateLine("14 May 2001 16:39")
GoodFrom == FromLine("a@x.com")
GoodTo   == ToLine(<<"b.c@y.com", "a@x.com">>)

\* well-formed messages, and messages with one or two headers missing or
\* malformed: no Date line; no From line, a sender the pattern rejects, a tab
\* after the label; no To line, a recipient the pattern rejects, an empty
\* entry in the list, a list wrapped onto a second line, no newline at all
WellFormed == {Msg(DateLine(d), FromLine(f), ToLine(L)) :
                 d \in DateTexts, f \in Senders, L \in RcptLists}
Malformed  == {Msg("", GoodFrom, GoodTo), Msg("", GoodFrom, ToLine(<<"d@z.com">>)),
               Msg("", "", GoodTo), Msg("", GoodFrom, ""),
               Msg(GoodDate, "", GoodTo), Msg(GoodDate, "From: j-d@x.com\n", GoodTo),
               Msg(GoodDate, "From:\ta@x.com\n", GoodTo),
               Msg(GoodDate, GoodFrom, ""), Msg(GoodDate, GoodFrom, "To: a@x.org\n"),
               Msg(GoodDate, GoodFrom, "To: a@x.com, , d@z.com\n"),
               Msg(GoodDate, GoodFrom, "To: b.c@y.com, \n"),
               Msg(GoodDate, GoodFrom, "To: a@x.com,\n\td@z.com\n"),
               "Date: 14 May\nFrom: a@x.com\nTo: d@z.com"}

Corpus == WellFormed \cup Malformed

RECURSIVE SeqsUpTo(_, _)
SeqsUpTo(S, n) ==
    IF n = 0 THEN {<<>>}
    ELSE LET R == SeqsUpTo(S, n - 1)
         IN  R \cup {Append(r, x) : r \in {r \in R : Len(r) = n - 1}, x \in S}

-----------------------------------------------------------------------------
(* The edge extraction loop, Enron-read.ipynb cells 4 and 5 *)

\* lines 99-101: the three searches of a message
mf(m) == fromRegex(m)
me(m) == toRegex(m)
dateMatch(m) == dateRegex(m)

\* line 102, `if mf and me`, with the guard dropped to either match
EitherFound(m) == mf(m).matched \/ me(m).matched
\* line 102: `if mf and me`
BothFound(m) == mf(m).matched /\ me(m).matched

\* line 103
DateOf(m) == Replace(Replace(dateMatch(m).group, "Date: ", ""), "\n", "")
\* line 104
FromOf(m) == Replace(mf(m).group, "From: ", "")
\* line 105
ToOf(m) == Replace(Replace(me(m).group, "To: ", ""), "\n", "")

\* line 107 splitting on the comma alone
SplitOnComma(m_to) == Split(m_to, ",")
\* line 107: m_to.split(', ')
SplitAddresses(m_to) == Split(m_to, ", ")

\* lines 111 and 114 with the increment forgotten
SameIndex(idx) == idx
\* lines 111 and 114: links_index += 1
NextIndex(idx) == idx + 1

\* links.loc[idx] = row: a new row when idx is no label yet, else overwritten
LocSet(df, idx, row) == [k \in DOMAIN df \cup {idx} |-> IF k = idx THEN row ELSE df[k]]

Row(d, f, r) == [Date |-> d, From |-> f, To |-> r]

\* line 80: pd.DataFrame(columns=['Date', 'From', 'To'])
EmptyFrame == [k \in {} |-> Row("", "", "")]

message == data[i + 1]

EdgeIdle ==
    /\ data = <<>> /\ i = 0 /\ pc = "idle" /\ links = EmptyFrame /\ links_index = 0
    /\ date = "" /\ m_from = "" /\ addresses = <<>> /\ mark = 0

BuildIdle == batch = <<>> /\ built = <<>>

UtilIdle ==
    /\ call = "none" /\ m1 = <<>> /\ m2 = <<>> /\ start = 0 /\ stop = 0
    /\ upperBoundActivationsNumber = 0 /\ lambda = 0 /\ isFiltered = FALSE
    /\ fpc = "idle" /\ commonKeys = {} /\ pending = {} /\ m1Freq = 1 /\ m2Freq = 1
    /\ weight = 0 /\ t = 0 /\ sum = <<>> /\ blocks = <<>> /\ result = 0

EdgeInit ==
    /\ data \in SeqsUpTo(Corpus, MaxMsgs)
    /\ i = 0
    /\ pc = "loop"
    /\ links = EmptyFrame
    /\ links_index = 0
    /\ date = ""
    /\ m_from = ""
    /\ addresses = <<>>
    /\ mark = 0
    /\ BuildIdle /\ UtilIdle

\* lines 98-102: the searches find no sender or no recipient; next message
SkipMessage ==
    /\ pc = "loop" /\ i < Len(data)
    /\ ~BothFound(message)
    /\ i' = i + 1
    /\ mark' = links_index
    /\ UNCHANGED <<data, pc, links, links_index, date, m_from, addresses>>
    /\ UNCHANGED <<buildVars, utilVars>>

\* line 103 with date = None: AttributeError, the cell stops
RaiseNoDate ==
    /\ pc = "loop" /\ i < Len(data)
    /\ BothFound(message)
    /\ ~dateMatch(message).matched
    /\ pc' = "raised"
    /\ mark' = links_index
    /\ UNCHANGED <<data, i, links, links_index, date, m_from, addresses>>
    /\ UNCHANGED <<buildVars, utilVars>>

\* lines 98-107 and 112: the headers are taken and the branch is chosen
TakeHeaders ==
    /\ pc = "loop" /\ i < Len(data)
    /\ BothFound(message)
    /\ dateMatch(message).matched
    /\ date' = DateOf(message)
    /\ m_from' = FromOf(message)
    /\ IF Contains(ToOf(message), ",")
       THEN addresses' = SplitAddresses(ToOf(message)) /\ pc' = "for"
       ELSE addresses' = <<ToOf(message)>> /\ pc' = "else"
    /\ mark' = links_index
    /\ UNCHANGED <<data, i, links, links_index>>
    /\ UNCHANGED <<buildVars, utilVars>>

\* lines 108-111: one pass of `for address in addresses`
ForAddress ==
    /\ pc = "for" /\ addresses # <<>>
    /\ IF Head(addresses) # ""
       THEN /\ links' = LocSet(links, links_index, Row(date, m_from, Head(addresses)))
            /\ links_index' = NextIndex(links_index)
       ELSE UNCHANGED <<links, links_index>>
    /\ addresses' = Tail(addresses)
    /\ IF Tail(addresses) = <<>>
       THEN i' = i + 1 /\ pc' = "loop"
       ELSE UNCHANGED <<i, pc>>
    /\ UNCHANGED <<data, date, m_from, mark>>
    /\ UNCHANGED <<buildVars, utilVars>>

\* lines 112-114: the single recipient
ElseBranch ==
    /\ pc = "else"
    /\ links' = LocSet(links, links_index, Row(date, m_from, Head(addresses)))
    /\ links_index' = NextIndex(links_index)
    /\ addresses' = <<>>
    /\ i' = i + 1
    /\ pc' = "loop"
    /\ UNCHANGED <<data, date, m_from, mark>>
    /\ UNCHANGED <<buildVars, utilVars>>

\* range(len(data)) is exhausted
LoopEnd ==
    /\ pc = "loop" /\ i = Len(data)
    /\ pc' = "done"
    /\ UNCHANGED <<data, i, links, links_index, date, m_from, addresses, mark>>
    /\ UNCHANGED <<buildVars, utilVars>>

EdgeNext == SkipMessage \/ RaiseNoDate \/ TakeHeaders \/ ForAddress \/ ElseBranch \/ LoopEnd

Spec == EdgeInit /\ [][EdgeNext]_vars

-----------------------------------------------------------------------------
(* The cell as a function of the batch: what it leaves in links *)

\* lines 108-111, the whole `for address in addresses`
RECURSIVE ForLoop(_, _, _, _, _)
ForLoop(addrs, df, idx, d, f) ==
    IF addrs = <<>> THEN [links |-> df, links_index |-> idx]
    ELSE IF Head(addrs) # ""
         THEN ForLoop(Tail(addrs), LocSet(df, idx, Row(d, f, Head(addrs))), NextIndex(idx), d, f)
         ELSE ForLoop(Tail(addrs), df, idx, d, f)

\* lines 98-114 from message k on (0-based), until the end or an exception
RECURSIVE RunCell(_, _, _, _)
RunCell(msgs, k, df, idx) ==
    IF k = Len(msgs) THEN [links |-> df, links_index |-> idx, raised |-> FALSE]
    ELSE LET m == msgs[k + 1]
         IN  IF ~BothFound(m) THEN RunCell(msgs, k + 1, df, idx)
             ELSE IF ~dateMatch(m).matched
                  THEN [links |-> df, links_index |-> idx, raised |-> TRUE]
             ELSE IF Contains(ToOf(m), ",")
                  THEN LET r == ForLoop(SplitAddresses(ToOf(m)), df, idx, DateOf(m), FromOf(m))
                       IN  RunCell(msgs, k + 1, r.links, r.links_index)
             ELSE RunCell(msgs, k + 1, LocSet(df, idx, Row(DateOf(m), FromOf(m), ToOf(m))),
                          NextIndex(idx))

\* cells 4 and 5 run on a batch
Build(msgs) == RunCell(msgs, 0, EmptyFrame, 0)

\* the rows of a frame in label order
Edges(r) == [k \in 1..r.links_index |-> r.links[k - 1]]

MaxBatch == 1

BuildInit ==
    /\ batch \in SeqsUpTo(Corpus, MaxBatch) \X SeqsUpTo(Corpus, MaxBatch)
    /\ built = <<>>
    /\ EdgeIdle /\ UtilIdle

\* the cell run on X ++ Y
BuildConcat ==
    /\ Len(built) = 0
    /\ built' = <<Build(batch[1] \o batch[2])>>
    /\ UNCHANGED <<batch, edgeVars, utilVars>>

\* the cell run on X
BuildLeft ==
    /\ Len(built) = 1
    /\ built' = Append(built, Build(batch[1]))
    /\ UNCHANGED <<batch, edgeVars, utilVars>>

\* the cell run on Y
BuildRight ==
    /\ Len(built) = 2
    /\ built' = Append(built, Build(batch[2]))
    /\ UNCHANGED <<batch, edgeVars, utilVars>>

BuildNext == BuildConcat \/ BuildLeft \/ BuildRight

SpecBuild == BuildInit /\ [][BuildNext]_vars

\* the loop taken step by step leaves what Build computes
StepwiseIsBuild ==
    pc \in {"done", "raised"} =>
        Build(data) = [links |-> links, links_index |-> links_index, raised |-> pc = "raised"]

-----------------------------------------------------------------------------
(* Scala Double: an exact fraction n/d in lowest terms, d > 0; d = 0 is   *)
(* not finite: 0/0 is NaN, 1/0 and -1/0 the infinities.  Rounding and the  *)
(* sign of zero are not modelled.                                          *)

Abs(x) == IF x < 0 THEN -x ELSE x
Sgn(x) == IF x < 0 THEN -1 ELSE IF x > 0 THEN 1 ELSE 0

RECURSIVE GCD(_, _)
GCD(a, b) == IF b = 0 THEN a ELSE GCD(b, a % b)

Ratio(n, d) == LET g == GCD(Abs(n), d) IN [n |-> n \div g, d |-> d \div g]

NaN == [n |-> 0, d |-> 0]
Inf(sgn) == [n |-> sgn, d |-> 0]
Finite(x) == x.d # 0

\* Int to Double
Double(k) == [n |-> k, d |-> 1]
Zero == Double(0)
Half == Ratio(1, 2)

Neg(x) == [n |-> -x.n, d |-> x.d]

Add(x, y) ==
    IF Finite(x) /\ Finite(y)
    THEN LET l == (x.d \div GCD(x.d, y.d)) * y.d
         IN  Ratio(x.n * (l \div x.d) + y.n * (l \div y.d), l)
    ELSE IF x = NaN \/ y = NaN THEN NaN
    ELSE IF ~Finite(x) /\ ~Finite(y) THEN (IF x = y THEN x ELSE NaN)
    ELSE IF Finite(x) THEN y ELSE x

Sub(x, y) == Add(x, Neg(y))

Mul(x, y) ==
    IF Finite(x) /\ Finite(y)
    THEN LET g1 == GCD(Abs(x.n), y.d)
             g2 == GCD(Abs(y.n), x.d)
         IN  [n |-> (x.n \div g1) * (y.n \div g2), d |-> (x.d \div g2) * (y.d \div g1)]
    ELSE IF x = NaN \/ y = NaN \/ x.n = 0 \/ y.n = 0 THEN NaN
    ELSE Inf(Sgn(x.n) * Sgn(y.n))

Div(x, y) ==
    IF Finite(x) /\ Finite(y)
    THEN IF y.n = 0 THEN (IF x.n = 0 THEN NaN ELSE Inf(Sgn(x.n)))
         ELSE Mul(x, [n |-> Sgn(y.n) * y.d, d |-> Abs(y.n)])
    ELSE IF x = NaN \/ y = NaN \/ (~Finite(x) /\ ~Finite(y)) THEN NaN
    ELSE IF Finite(x) THEN Zero
    ELSE Inf(Sgn(x.n) * (IF y.n < 0 THEN -1 ELSE 1))

\* x < y; false when either is NaN
Less(x, y) ==
    IF x = NaN \/ y = NaN THEN FALSE
    ELSE IF Finite(x) /\ Finite(y) THEN x.n * y.d < y.n * x.d
    ELSE x # y /\ (x = Inf(-1) \/ y = Inf(1))

Gt(x, y) == Less(y, x)
Ge(x, y) == x # NaN /\ y # NaN /\ ~Less(x, y)

\* breeze.linalg.min and max of two Doubles
min(x, y) == IF x = NaN \/ y = NaN THEN NaN ELSE IF Less(y, x) THEN y ELSE x
max(x, y) == IF x = NaN \/ y = NaN THEN NaN ELSE IF Less(x, y) THEN y ELSE x

-----------------------------------------------------------------------------
(* ch.epfl.lts2.Utils: compareTimeSeries *)

\* line 89 with the comparison made non-strict
SimilarOrEqual(similarity) == Ge(similarity, Half)
\* line 89: `similarity > 0.5`
Similar(similarity) == Gt(similarity, Half)

\* lines 72-82
CompareBegin ==
    /\ call = "compareTimeSeries" /\ fpc = "begin"
    /\ commonKeys' = DOMAIN m2 \cap DOMAIN m1
    /\ m1Freq' = IF isFiltered THEN Cardinality(DOMAIN m1) ELSE 1
    /\ m2Freq' = IF isFiltered THEN Cardinality(DOMAIN m2) ELSE 1
    /\ IF commonKeys' = {}
       THEN fpc' = "returned" /\ result' = Double(0) /\ UNCHANGED <<weight, pending>>
       ELSE fpc' = "loop" /\ weight' = Zero /\ pending' = commonKeys' /\ UNCHANGED result
    /\ UNCHANGED <<call, m1, m2, start, stop, upperBoundActivationsNumber, lambda, isFiltered,
                   t, sum, blocks>>
    /\ UNCHANGED <<edgeVars, buildVars>>

\* lines 85-92: one pass of `for (key <- commonKeys)`, in whatever order the
\* Set hands out its keys; the last pass returns weight
CompareStep ==
    /\ call = "compareTimeSeries" /\ fpc = "loop"
    /\ \E key \in pending :
         LET value1 == Div(m1[key], Double(m1Freq))
             value2 == Div(m2[key], Double(m2Freq))
             similarity == Div(min(value1, value2), max(value1, value2))
         IN  /\ weight' = IF Similar(similarity) THEN Add(weight, similarity)
                          ELSE Sub(weight, similarity)
             /\ pending' = pending \ {key}
    /\ IF pending' = {}
       THEN fpc' = "returned" /\ result' = weight'
       ELSE UNCHANGED <<fpc, result>>
    /\ UNCHANGED <<call, m1, m2, start, stop, upperBoundActivationsNumber, lambda, isFiltered,
                   commonKeys, m1Freq, m2Freq, t, sum, blocks>>
    /\ UNCHANGED <<edgeVars, buildVars>>

-----------------------------------------------------------------------------
(* compareTimeSeries with a time window *)

\* lines 112, 118, 146, 157 with the window closed at both ends
InClosedWindow(hour) == hour >= start /\ hour <= stop
\* lines 112, 118, 146, 157: `hour > start & hour < stop`
InWindow(hour) == hour > start /\ hour < stop

\* lines 108-109: m.filter(pair => pair._2 > upperBoundActivationsNumber)
Filtered(m) ==
    [k \in {k \in DOMAIN m : Gt(m[k], Double(upperBoundActivationsNumber))} |-> m[k]]

m1Filtered == Filtered(m1)
m2Filtered == Filtered(m2)

\* line 130 with the else branch of the other overload
Subtracted(w, similarity) == Sub(w, similarity)
\* line 130: `else weight += 0.0`
NotSimilar(w, similarity) == Add(w, Zero)

\* lines 108-122
WindowBegin ==
    /\ call = "compareTimeSeriesWindow" /\ fpc = "begin"
    /\ commonKeys' = {hour \in DOMAIN m2Filtered \cap DOMAIN m1Filtered : InWindow(hour)}
    /\ m1Freq' = IF isFiltered
                 THEN Cardinality({key \in DOMAIN m1Filtered : InWindow(key)}) ELSE 1
    /\ m2Freq' = IF isFiltered
                 THEN Cardinality({key \in DOMAIN m2Filtered : InWindow(key)}) ELSE 1
    /\ IF commonKeys' = {}
       THEN fpc' = "returned" /\ result' = Double(0) /\ UNCHANGED <<weight, pending>>
       ELSE fpc' = "loop" /\ weight' = Zero /\ pending' = commonKeys' /\ UNCHANGED result
    /\ UNCHANGED <<call, m1, m2, start, stop, upperBoundActivationsNumber, lambda, isFiltered,
                   t, sum, blocks>>
    /\ UNCHANGED <<edgeVars, buildVars>>

\* lines 125-132
WindowStep ==
    /\ call = "compareTimeSeriesWindow" /\ fpc = "loop"
    /\ \E key \in pending :
         LET value1 == Div(m1Filtered[key], Double(m1Freq))
             value2 == Div(m2Filtered[key], Double(m2Freq))
             similarity == Div(min(value1, value2), max(value1, value2))
         IN  /\ weight' = IF Gt(similarity, lambda) THEN Add(weight, similarity)
                          ELSE NotSimilar(weight, similarity)
             /\ pending' = pending \ {key}
    /\ IF pending' = {}
       THEN fpc' = "returned" /\ result' = weight'
       ELSE UNCHANGED <<fpc, result>>
    /\ UNCHANGED <<call, m1, m2, start, stop, upperBoundActivationsNumber, lambda, isFiltered,
                   commonKeys, m1Freq, m2Freq, t, sum, blocks>>
    /\ UNCHANGED <<edgeVars, buildVars>>

-----------------------------------------------------------------------------
(* pearsonCorrelation.  Math.sqrt is not taken: a Double that is a sum of  *)
(* quotients numerator / sqrt(radicand) is the sequence of its terms       *)
(* [num, rad], 0.0 the empty sequence.                                     *)

BlockSize == 24

\* .toSeq.sorted
RECURSIVE Sorted(_)
Sorted(S) == IF S = {} THEN <<>> ELSE <<Min(S)>> \o Sorted(S \ {Min(S)})

Range(q) == {q[k] : k \in 1..Len(q)}

\* Seq.slice(from, until), 0-based, clipped to the sequence
Slice(q, from, until) == SubSeq(q, from + 1, IF until < Len(q) THEN until ELSE Len(q))

\* m.values.sum and the foldLeft of the squares, over the keys S of m
RECURSIVE SumValues(_, _)
SumValues(m, S) ==
    IF S = {} THEN Zero ELSE Add(m[Min(S)], SumValues(m, S \ {Min(S)}))

RECURSIVE SumSquares(_, _)
SumSquares(m, S) ==
    IF S = {} THEN Zero ELSE Add(Mul(m[Min(S)], m[Min(S)]), SumSquares(m, S \ {Min(S)}))

\* line 172: the foldLeft of the products over commonKeys_
RECURSIVE SumProducts(_, _, _)
SumProducts(a, b, q) ==
    IF q = <<>> THEN Zero ELSE Add(Mul(a[Head(q)], b[Head(q)]), SumProducts(a, b, Tail(q)))

\* line 150 with the size of the block for n
BlockLength(keys, commonKeys_) == Len(commonKeys_)
\* line 150: val n = commonKeys.size
SampleSize(keys, commonKeys_) == Len(keys)

\* lines 163-164: m.filterKeys(commonKeys_.contains).mapValues(_ / freq)
Common(m, commonKeys_, freq) ==
    [k \in {v \in DOMAIN m : v \in Range(commonKeys_)} |-> Div(m[k], Double(freq))]

\* lines 166-175 for one block: the numerator, and the radicand of which
\* the denominator is the square root
Block(a, b, keys, commonKeys_, freq1, freq2) ==
    LET m1Common == Common(a, commonKeys_, freq1)
        m2Common == Common(b, commonKeys_, freq2)
        n == Double(SampleSize(keys, commonKeys_))
        sum1 == SumValues(m1Common, DOMAIN m1Common)
        sum2 == SumValues(m2Common, DOMAIN m2Common)
        sum1Sq == SumSquares(m1Common, DOMAIN m1Common)
        sum2Sq == SumSquares(m2Common, DOMAIN m2Common)
        pSum == SumProducts(m1Common, m2Common, commonKeys_)
    IN  [numerator |-> Sub(pSum, Div(Mul(sum1, sum2), n)),
         radicand  |-> Mul(Sub(sum1Sq, Div(Mul(sum1, sum1), n)),
                           Sub(sum2Sq, Div(Mul(sum2, sum2), n)))]

\* line 177: sum + numerator / denominator unless denominator == 0
PlusQuotient(s, blk) ==
    IF blk.radicand = Zero \/ blk.numerator = Zero THEN s
    ELSE Append(s, [num |-> blk.numerator, rad |-> blk.radicand])

\* lines 146-159
PearsonBegin ==
    /\ call = "pearsonCorrelation" /\ fpc = "begin"
    /\ commonKeys' = Sorted({hour \in DOMAIN m2 \cap DOMAIN m1 : InWindow(hour)})
    /\ sum' = <<>>
    /\ IF Len(commonKeys') = 0
       THEN fpc' = "returned" /\ result' = <<>> /\ UNCHANGED <<m1Freq, m2Freq>>
       ELSE /\ fpc' = "loop" /\ UNCHANGED result
            /\ m1Freq' = IF isFiltered
                         THEN Cardinality({key \in DOMAIN m1 : InWindow(key)}) ELSE 1
            /\ m2Freq' = IF isFiltered
                         THEN Cardinality({key \in DOMAIN m2 : InWindow(key)}) ELSE 1
    /\ t' = 0
    /\ UNCHANGED <<call, m1, m2, start, stop, upperBoundActivationsNumber, lambda, isFiltered,
                   pending, weight, blocks>>
    /\ UNCHANGED <<edgeVars, buildVars>>

\* lines 160-179: one pass of `for (t <- 0 until commonKeys.size by 24)`;
\* the last pass returns sum
PearsonBlock ==
    /\ call = "pearsonCorrelation" /\ fpc = "loop"
    /\ LET commonKeys_ == Slice(commonKeys, t, t + BlockSize)
       IN  /\ sum' = PlusQuotient(sum, Block(m1, m2, commonKeys, commonKeys_, m1Freq, m2Freq))
           /\ blocks' = Append(blocks, commonKeys_)
    /\ t' = t + BlockSize
    /\ IF t' >= Len(commonKeys)
       THEN fpc' = "returned" /\ result' = sum'
       ELSE UNCHANGED <<fpc, result>>
    /\ UNCHANGED <<call, m1, m2, start, stop, upperBoundActivationsNumber, lambda, isFiltered,
                   commonKeys, pending, m1Freq, m2Freq, weight>>
    /\ UNCHANGED <<edgeVars, buildVars>>

-----------------------------------------------------------------------------
(* The calls that are made *)

MaxBucket == 2
MaxHour == 27
LongHour == 50

\* activity counts of a bucket
Counts == {0, 2, 3, 4}

\* every series over the buckets 1..MaxBucket
AllSeries == UNION {[S -> {Double(c) : c \in Counts}] : S \in SUBSET (1..MaxBucket)}

\* long series: the buckets lo, lo + step, ... up to hi, with a count that
\* is constant (p = 0) or varies with the bucket
Activity(p, k) == CASE p = 0 -> 1 [] p = 1 -> k % 3 [] OTHER -> (k * k) % 5
Long(lo, hi, step, p) ==
    [k \in {k \in lo..hi : (k - lo) % step = 0} |-> Double(Activity(p, k))]

UtilInit ==
    /\ fpc = "begin"
    /\ commonKeys = {} /\ pending = {} /\ m1Freq = 1 /\ m2Freq = 1
    /\ weight = Zero /\ t = 0 /\ sum = <<>> /\ blocks = <<>> /\ result = Zero
    /\ \/ /\ call = "compareTimeSeries"
          /\ m1 \in AllSeries /\ m2 \in AllSeries
          /\ isFiltered \in BOOLEAN
          /\ start = 0 /\ stop = 0 /\ upperBoundActivationsNumber = 0 /\ lambda = Half
       \/ /\ call = "compareTimeSeriesWindow"
          /\ m1 \in AllSeries /\ m2 \in AllSeries
          /\ isFiltered \in BOOLEAN
          /\ stop = MaxBucket + 1
          /\ \E w \in {<<0, 0, Half>>, <<1, 0, Half>>, <<0, -1, Half>>, <<0, 2, Half>>,
                        <<0, 0, Ratio(3, 4)>>, <<1, -1, Ratio(3, 4)>>} :
                start = w[1] /\ upperBoundActivationsNumber = w[2] /\ lambda = w[3]
       \/ /\ call = "pearsonCorrelation"
          /\ \/ /\ m1 \in {Long(1, hi, 1, p) : hi \in {0, 6, MaxHour}, p \in 0..2}
                /\ m2 \in {Long(lo, hi, step, p) :
                             lo \in {1, 3}, hi \in {6, MaxHour}, step \in {1, 2}, p \in 0..2}
                /\ isFiltered \in BOOLEAN
             \/ /\ m1 \in {Long(1, LongHour, 1, p) : p \in 0..2}
                /\ m2 \in {Long(lo, LongHour, 1, p) : lo \in {1, 2, 3}, p \in 0..2}
                /\ isFiltered = FALSE
          /\ \E w \in {<<0, LongHour + 1>>, <<0, MaxHour>>, <<2, 3>>, <<2, 7>>} :
                start = w[1] /\ stop = w[2]
          /\ upperBoundActivationsNumber = 0 /\ lambda = Half
    /\ EdgeIdle /\ BuildIdle

UtilNext ==
    CompareBegin \/ CompareStep \/ WindowBegin \/ WindowStep \/ PearsonBegin \/ PearsonBlock

SpecUtils == UtilInit /\ [][UtilNext]_vars

-----------------------------------------------------------------------------
(* Claims about the edge extraction loop *)

\* C1: edge building never aborts on a malformed record: no message of the
\* batch, whichever header it lacks, raises, and the loop reaches the end of
\* the batch with every message visited.
C1_NeverAborts ==
    /\ pc # "raised"
    /\ pc = "done" => i = Len(data)

\* C2: a row is written only for a message that has both a sender match and
\* a recipient match, and its From and To are taken out of those two matches
\* of that same message; a message that lacks either match is passed over
\* with no row and no exception, whatever its other headers.
C2_BothMatchesOrNothing ==
    [][ /\ links' # links =>
            /\ mf(message).matched /\ me(message).matched
            /\ DOMAIN links' \ DOMAIN links = {links_index}
            /\ Contains(mf(message).group, links'[links_index].From)
            /\ Contains(me(message).group, links'[links_index].To)
        /\ (pc = "loop" /\ i < Len(data)
             /\ ~(mf(message).matched /\ me(message).matched)) =>
            /\ links' = links /\ links_index' = links_index
            /\ pc' = "loop" /\ i' = i + 1 ]_vars

\* a batch of two was run to its end, a message without a From match was
\* passed over and another message gave rows
C2_Witness ==
    /\ pc = "done" /\ Len(data) = 2 /\ links_index >= 1
    /\ \E k \in 1..2 : ~mf(data[k]).matched /\ me(data[k]).matched

\* the entries of a recipient list that are not empty, in order
NonEmpty(L) == SelectSeq(L, LAMBDA a : a # "")

\* recipient lists with an empty entry in the middle or at the end
GappedLists == {<<"a@x.com", "", "d@z.com">>, <<"b.c@y.com", "">>}

\* C3: a message "Date: d / From: f / To: a1, a2, ..., ak" gives exactly the
\* k rows (d, f, a1) ... (d, f, ak), in that order; empty entries of the list
\* give no row and a To line without a comma gives one row.
C3_FanOut ==
    (pc \in {"loop", "done"} /\ i >= 1) =>
        \A d \in DateTexts, f \in Senders, L \in RcptLists \cup GappedLists :
            data[i] = Msg(DateLine(d), FromLine(f), ToLine(L)) =>
                /\ links_index - mark = Len(NonEmpty(L))
                /\ \A j \in 1..Len(NonEmpty(L)) :
                       links[mark + j - 1] = Row(d, f, NonEmpty(L)[j])

\* the second message of a batch has three recipients and its three rows
\* follow the rows of the first message
C3_Witness ==
    /\ pc = "done" /\ Len(data) = 2 /\ mark >= 1 /\ links_index = mark + 3
    /\ \E d \in DateTexts, f \in Senders, L \in RcptLists :
           Len(L) = 3 /\ data[2] = Msg(DateLine(d), FromLine(f), ToLine(L))

\* C4: the cell run on X ++ Y leaves the rows it leaves on X followed by the
\* rows it leaves on Y.
C4_Compositional ==
    Len(built) = 3 => Edges(built[1]) = Edges(built[2]) \o Edges(built[3])

\* the same, for the batches on which no run raises
C4_WhenNothingRaises ==
    (Len(built) = 3 /\ ~built[1].raised) =>
        Edges(built[1]) = Edges(built[2]) \o Edges(built[3])

\* C10: the row labels are exactly 0..links_index-1 at every point of the
\* loop; a step that writes a row writes it at the label links_index, which
\* was free, and moves links_index on by one; no step changes or removes a
\* row written before.
C10_AppendOnly ==
    /\ [](DOMAIN links = 0..(links_index - 1))
    /\ [][ /\ \A k \in DOMAIN links : k \in DOMAIN links' /\ links'[k] = links[k]
           /\ links' # links =>
                /\ links_index \notin DOMAIN links
                /\ DOMAIN links' = DOMAIN links \cup {links_index}
                /\ links_index' = links_index + 1
           /\ links' = links => links_index' = links_index ]_vars

\* three rows or more were written in one run
C10_Witness == pc = "done" /\ links_index >= 3 /\ Len(data) = 2

-----------------------------------------------------------------------------
(* Claims about compareTimeSeries and pearsonCorrelation *)

\* the sum of the values of f over the keys S
RECURSIVE TotalOver(_, _)
TotalOver(f, S) == IF S = {} THEN Zero ELSE Add(f[Min(S)], TotalOver(f, S \ {Min(S)}))

Total(f) == TotalOver(f, DOMAIN f)

\* the number of keys of a series when filtered, else 1
KeyCount(m, filtered) == IF filtered THEN Cardinality(DOMAIN m) ELSE 1

\* C5: compareTimeSeries(a, a, isFiltered = false) is the number of keys of
\* a, for every series a of non-negative counts, zero counts included.
C5_SelfSimilarity ==
    (call = "compareTimeSeries" /\ fpc = "returned" /\ m1 = m2 /\ ~isFiltered) =>
        result = Double(Cardinality(DOMAIN m1))

\* C6: compareTimeSeries returns 0.0 at once when the two series share no
\* key, filtered or not and also when one of them is empty, and
\* pearsonCorrelation returns 0.0 at once when no key common to both lies
\* strictly between start and stop.
C6_NoCommonKeyIsZero ==
    /\ (call = "compareTimeSeries" /\ fpc # "begin" /\ DOMAIN m1 \cap DOMAIN m2 = {}) =>
           fpc = "returned" /\ result = Zero
    /\ (call = "pearsonCorrelation" /\ fpc # "begin"
          /\ ~\E k \in DOMAIN m1 \cap DOMAIN m2 : start < k /\ k < stop) =>
           fpc = "returned" /\ result = <<>>

\* pearsonCorrelation has returned for two series that share the keys start
\* and stop and no key strictly between them
C6_Witness ==
    /\ call = "pearsonCorrelation" /\ fpc = "returned"
    /\ {start, stop} \subseteq DOMAIN m1 \cap DOMAIN m2
    /\ stop = start + 1
    /\ m1[start] # m1[stop] /\ m2[start] # m2[stop]

\* what one common key adds to the similarity: +sim above 0.5, -sim otherwise
SignedSim(a, b, key, freqA, freqB) ==
    LET v1 == Div(a[key], Double(freqA))
        v2 == Div(b[key], Double(freqB))
        sim == Div(min(v1, v2), max(v1, v2))
    IN  IF Gt(sim, Half) THEN sim ELSE Neg(sim)

ExampleA == (1 :> Double(2)) @@ (2 :> Double(4))
ExampleB == (1 :> Double(2)) @@ (2 :> Double(2))

\* C7: compareTimeSeries(a, b, isFiltered) is the sum over the common keys of
\* +sim when sim > 0.5 and -sim otherwise, sim = min(v1,v2)/max(v1,v2) with
\* the values divided by the key counts when filtered; a ratio of exactly 0.5
\* is subtracted, so a = {1:2, 2:4}, b = {1:2, 2:2} unfiltered give 0.5.
C7_AccumulationRule ==
    (call = "compareTimeSeries" /\ fpc = "returned") =>
        /\ result = Total([key \in DOMAIN m1 \cap DOMAIN m2 |->
                             SignedSim(m1, m2, key, KeyCount(m1, isFiltered),
                                       KeyCount(m2, isFiltered))])
        /\ (m1 = ExampleA /\ m2 = ExampleB /\ ~isFiltered) => result = Half

\* the example of the claim has been computed
C7_Witness ==
    /\ call = "compareTimeSeries" /\ fpc = "returned"
    /\ m1 = ExampleA /\ m2 = ExampleB /\ ~isFiltered /\ result = Half

\* the similarity of the two series at a key of the windowed overload
WindowSim(key) ==
    LET v1 == Div(m1[key], Double(m1Freq))
        v2 == Div(m2[key], Double(m2Freq))
    IN  Div(min(v1, v2), max(v1, v2))

\* C8: the windowed overload visits exactly the keys whose value in both
\* series is above the lower bound and that lie strictly inside (start, stop);
\* a key adds sim when sim > lambda and nothing otherwise, so the running
\* total never decreases and is never negative; the unwindowed overload
\* subtracts sim for a key that is not similar.
C8_WindowedRule ==
    /\ [](call = "compareTimeSeriesWindow" =>
            /\ fpc # "begin" =>
                 commonKeys = {k \in DOMAIN m1 \cap DOMAIN m2 :
                                 /\ Gt(m1[k], Double(upperBoundActivationsNumber))
                                 /\ Gt(m2[k], Double(upperBoundActivationsNumber))
                                 /\ start < k /\ k < stop}
            /\ Ge(weight, Zero)
            /\ fpc = "returned" => Ge(result, Zero))
    /\ [][ /\ (call = "compareTimeSeriesWindow" /\ fpc = "loop") =>
                /\ \E key \in pending :
                     /\ pending' = pending \ {key}
                     /\ weight' = IF Gt(WindowSim(key), lambda)
                                  THEN Add(weight, WindowSim(key)) ELSE weight
                /\ Ge(weight', weight)
           /\ (call = "compareTimeSeries" /\ fpc = "loop") =>
                \E key \in pending :
                     /\ pending' = pending \ {key}
                     /\ weight' = Add(weight, SignedSim(m1, m2, key, m1Freq, m2Freq)) ]_vars

\* a windowed call has returned 1.0 from two common keys, one of which was
\* not similar and added nothing
C8_Witness ==
    /\ call = "compareTimeSeriesWindow" /\ fpc = "returned" /\ ~isFiltered
    /\ Cardinality(commonKeys) = 2 /\ result = Double(1)
    /\ \E k \in commonKeys : ~Gt(WindowSim(k), lambda) /\ WindowSim(k) # Zero

RECURSIVE Flatten(_)
Flatten(qs) == IF qs = <<>> THEN <<>> ELSE Head(qs) \o Flatten(Tail(qs))

\* the Pearson numerator and radicand of the keys S with sample size n
PearsonTerm(S, n, freqA, freqB) ==
    LET x   == [k \in S |-> Div(m1[k], Double(freqA))]
        y   == [k \in S |-> Div(m2[k], Double(freqB))]
        sx  == Total(x)
        sy  == Total(y)
        sxx == Total([k \in S |-> Mul(x[k], x[k])])
        syy == Total([k \in S |-> Mul(y[k], y[k])])
        sxy == Total([k \in S |-> Mul(x[k], y[k])])
    IN  [num |-> Sub(sxy, Div(Mul(sx, sy), Double(n))),
         rad |-> Mul(Sub(sxx, Div(Mul(sx, sx), Double(n))),
                     Sub(syy, Div(Mul(sy, sy), Double(n))))]

\* the terms the blocks qs add up to: nothing for a block whose denominator
\* (or numerator) is 0
RECURSIVE Contributions(_, _, _, _)
Contributions(qs, n, freqA, freqB) ==
    IF qs = <<>> THEN <<>>
    ELSE LET term == PearsonTerm(Range(Head(qs)), n, freqA, freqB)
         IN  (IF term.rad = Zero \/ term.num = Zero THEN <<>> ELSE <<term>>)
                \o Contributions(Tail(qs), n, freqA, freqB)

\* C9: the blocks of pearsonCorrelation are consecutive runs of the common
\* keys strictly inside (start, stop) in ascending order, every key in
\* exactly one block, every block of at most 24 keys and every block but the
\* last of exactly 24; every block takes n = the number of all the common
\* keys; a block whose denominator is 0 adds 0, any other block adds
\* numerator/denominator, and the result is the sum over the blocks.
C9_BlockedPearson ==
    (call = "pearsonCorrelation" /\ fpc = "returned") =>
        LET keys == {k \in DOMAIN m1 \cap DOMAIN m2 : start < k /\ k < stop}
            all  == Flatten(blocks)
            inA  == Cardinality({k \in DOMAIN m1 : start < k /\ k < stop})
            inB  == Cardinality({k \in DOMAIN m2 : start < k /\ k < stop})
        IN  /\ Len(all) = Cardinality(keys) /\ Range(all) = keys
            /\ \A j \in 1..(Len(all) - 1) : all[j] < all[j + 1]
            /\ \A b \in 1..Len(blocks) :
                 /\ Len(blocks[b]) >= 1 /\ Len(blocks[b]) <= 24
                 /\ b < Len(blocks) => Len(blocks[b]) = 24
            /\ result = Contributions(blocks, Cardinality(keys),
                                      IF isFiltered THEN inA ELSE 1,
                                      IF isFiltered THEN inB ELSE 1)

\* fifty common keys went into two blocks of 24 and one of 2, each of which
\* added a term
C9_Witness ==
    /\ call = "pearsonCorrelation" /\ fpc = "returned"
    /\ Len(blocks) = 3 /\ Len(blocks[3]) = 2 /\ Len(result) = 3

=============================================================================
